---- MODULE Spec2Model ----
\* Model of the code-generation-and-sandboxed-execution pipeline:
\*   PythonSandboxService (executePythonCode, enhancePythonCode and the script
\*   it envelopes, runPythonFile, cleanupOldFiles), the results routes over the
\*   output directory, AIService (analyzeData, parseAIResponse), the handlers
\*   POST /visualize, /preview and /execute, and the dataset side:
\*   FileProcessingService (upload, getDatasetInfo, deleteDataset,
\*   inferDataTypes), the upload routes and the FileUpload component.
EXTENDS Integers, Sequences, FiniteSets, TLC

\* ---------------------------------------------------------------- bounds
\* Number of calls of executePythonCode in one behaviour.
MaxExec == 2
\* Last tick of the wall clock (milliseconds, abstracted).
MaxTime == 1
\* Number of 'message' / 'error' events the python shells deliver in all.
MaxEvents == 1
\* The wall-clock budget the specification asks for (the code has none).
TimeoutBudget == 0
\* The size ceiling of a transcript the specification asks for, in characters
\* (the code has none).
TranscriptCeiling == 1
\* Longest raw reply handed to parseAIResponse, in tokens.
MaxLen == 6
\* Longest caller-supplied python code handed to enhancePythonCode, in tokens.
MaxCode == 3
\* Most calls of uuidv4() the file service makes.
MaxUuids == 4
\* Most data rows of a table handed to inferDataTypes.
MaxRows == 3

VARIABLES
    now,        \* Date.now()
    fs,         \* the temp and output directories: path -> entry
    exec,       \* per call of executePythonCode: its position and locals
    result,     \* per call: the PythonExecutionResult it returned
    touched,    \* per call: the paths it wrote, checked or deleted (history)
    last,       \* the answer of the route (or the sweep) this step ran, if any
    response,   \* parseAIResponse: the raw reply
    parsed,     \* parseAIResponse: what it returned
    visualize,  \* POST /visualize: the request, its position, what it answered
    enhanced,   \* enhancePythonCode: its arguments and the script it returned
    py,         \* the python process of call 1 running the enveloped script
    uploads,    \* the upload directory: file name -> content
    issued,     \* the datasets the upload route has answered with (history)
    pending,    \* the upload request in flight, if any
    client,     \* the page: the FileUpload component and what Index shows
    infer,      \* inferDataTypes: a column and the type it got
    request,    \* POST /preview or /execute: its position and its answer
    drawn       \* how many uuids the file service has drawn

vars == <<now, fs, exec, result, touched, last, response, parsed,
          visualize, enhanced, py, uploads, issued, pending, client, infer,
          request, drawn>>

\* ---------------------------------------------------------------- strings
\* A string is a sequence of characters; the characters the model tells apart
\* are blanks, the newline and other characters.
WhiteSpace == {" ", "\n"}

RECURSIVE TrimStart(_)
TrimStart(s) ==
    IF s # <<>> /\ Head(s) \in WhiteSpace THEN TrimStart(Tail(s)) ELSE s

RECURSIVE TrimEnd(_)
TrimEnd(s) ==
    IF s # <<>> /\ s[Len(s)] \in WhiteSpace
    THEN TrimEnd(SubSeq(s, 1, Len(s) - 1))
    ELSE s

\* String.prototype.trim
Trim(s) == TrimEnd(TrimStart(s))

\* An optional string (string | undefined).
Undefined == [some |-> FALSE, val |-> <<>>]
Some(s) == [some |-> TRUE, val |-> s]
\* JavaScript truthiness of a string | undefined value.
Truthy(o) == o.some /\ o.val # <<>>
\* a || b
OrElse(a, b) == IF Truthy(a) THEN a ELSE b

\* ---------------------------------------------------------------- paths
Execs == 1 .. MaxExec
Formats == {"png", "jpg", "svg", "html"}
\* The output formats the modelled requests ask for: a static one and html.
RequestFormats == {"png", "html"}
Times == 0 .. MaxTime

NoFile == [kind |-> "none", mtime |-> 0]

\* join(this.tempDir, `${executionId}.py`)
pythonFile(id) == [dir |-> "temp", id |-> id, ext |-> "py"]
\* join(this.outputDir, `${executionId}.${request.outputFormat}`)
outputFile(id, format) == [dir |-> "output", id |-> id, ext |-> format]

NoPath == [dir |-> "none", id |-> 0, ext |-> "none"]

\* The tokens uuidv4 can return.
Ids == 1 .. MaxExec
\* Entries of the output directory that no call of executePythonCode names:
\* a .jpeg chart and files that are not charts.
ForeignPaths == { outputFile(1, "jpeg") } \cup { outputFile(i, "txt") : i \in Ids }
Paths == { pythonFile(i) : i \in Ids } \cup
         { outputFile(i, f) : i \in Ids, f \in Formats } \cup ForeignPaths

\* A directory entry is a regular file, a directory or a dangling link.
\* existsSync(p): false for a missing entry and for a dangling link.
Exists(f, p) == f[p].kind \in {"file", "dir"}
\* readdirSync(dir): every entry of the directory
DirEntries(f, dir) == { p \in DOMAIN f : p.dir = dir /\ f[p].kind # "none" }
\* The orders in which readdirSync may return the entries.
Orders(S) == { s \in [1 .. Cardinality(S) -> S] :
                 \A i, j \in 1 .. Cardinality(S) : i # j => s[i] # s[j] }
\* writeFileSync(p, ...) / the script's savefig or write_html at time t
WriteFile(f, p, t) == [f EXCEPT ![p] = [kind |-> "file", mtime |-> t]]
\* unlinkSync(p)
Unlink(f, p) == [f EXCEPT ![p] = NoFile]

\* ---------------------------------------------------------------- messages
\* Lines the script prints (one 'message' event each).
StdoutMessages == { <<"o">> }
\* err.message of an error the python shell reports; it may be empty.
ShellErrorMessages == { <<"E">> }
\* err.message of the error the end callback receives; it may be blank.
EndErrorMessages == { <<>>, <<"E">> }
\* error.message of an exception thrown by writeFileSync or by the
\* PythonShell constructor (Node system errors: never empty).
ThrownMessages == { <<"X">> }

\* ---------------------------------------------------------------- execution
ChartGenerationFailed == <<"C", "g", "f">>

NoResult == [returned |-> FALSE, success |-> FALSE, output |-> <<>>,
             error |-> [some |-> FALSE, val |-> <<>>],
             chartPath |-> NoPath, chartData |-> "none"]

IdleExec == [phase |-> "Idle", id |-> 0, format |-> "none", output |-> <<>>,
             error |-> <<>>, nerr |-> 0, nmsg |-> 0, started |-> 0,
             endErr |-> FALSE, chartExists |-> FALSE, launched |-> FALSE]

\* uuidv4() returns a token no earlier call has returned (which one is
\* immaterial: the least unused one stands for it).
\* Variant: an id taken from the clock.
TimestampId(used) == { (now % MaxExec) + 1 }
\* uuidv4(): a fresh token.
uuidv4(used) == { i \in Ids \ used : \A j \in Ids \ used : i <= j }

usedIds == { exec[e].id : e \in { x \in Execs : exec[x].phase # "Idle" } }

\* pyshell.on('message'): output += message + '\n'
onMessage(output, message) == output \o message \o <<"\n">>
\* pyshell.on('error') and the end callback: error += err.message + '\n'
onError(error, message) == error \o message \o <<"\n">>

\* The value runPythonFile resolves with, from the end callback (lines 168-178).
runPythonFileResult(output, error, endErr) ==
    LET error1 == IF endErr.some THEN onError(error, endErr.val) ELSE error
    IN  [success |-> error1 = <<>>,
         output |-> Trim(output),
         error |-> IF Trim(error1) # <<>> THEN Some(Trim(error1)) ELSE Undefined]

\* readChartData(chartPath, format): the file's text for html, its metadata
\* otherwise, null when reading throws.
readChartData(f, chartPath, format) ==
    IF ~Exists(f, chartPath) THEN "null"
    ELSE IF format = "html" THEN "content" ELSE "metadata"

\* Variant: success decided by the process alone.
executionResultNoFileCheck(r, chartExists, f, chartPath, format) ==
    IF r.success
    THEN [returned |-> TRUE, success |-> TRUE, output |-> r.output,
          error |-> Undefined, chartPath |-> chartPath,
          chartData |-> readChartData(f, chartPath, format)]
    ELSE [returned |-> TRUE, success |-> FALSE, output |-> r.output,
          error |-> OrElse(r.error, Some(ChartGenerationFailed)),
          chartPath |-> NoPath, chartData |-> "none"]
\* Variant: no default error text.
executionResultNoDefault(r, chartExists, f, chartPath, format) ==
    IF r.success /\ chartExists
    THEN [returned |-> TRUE, success |-> TRUE, output |-> r.output,
          error |-> Undefined, chartPath |-> chartPath,
          chartData |-> readChartData(f, chartPath, format)]
    ELSE [returned |-> TRUE, success |-> FALSE, output |-> r.output,
          error |-> r.error,
          chartPath |-> NoPath, chartData |-> "none"]
\* The try block after the await (lines 54-70).
executionResult(r, chartExists, f, chartPath, format) ==
    IF r.success /\ chartExists
    THEN [returned |-> TRUE, success |-> TRUE, output |-> r.output,
          error |-> Undefined, chartPath |-> chartPath,
          chartData |-> readChartData(f, chartPath, format)]
    ELSE [returned |-> TRUE, success |-> FALSE, output |-> r.output,
          error |-> OrElse(r.error, Some(ChartGenerationFailed)),
          chartPath |-> NoPath, chartData |-> "none"]

\* The catch block (lines 71-76); the thrown value is an Error.
catchResult(message) ==
    [returned |-> TRUE, success |-> FALSE, output |-> <<>>,
     error |-> Some(message), chartPath |-> NoPath, chartData |-> "none"]

\* Variant: the script is left behind.
finallyNoCleanup(f, script) == f
\* The finally block (lines 77-82).
finallyCleanup(f, script) == IF Exists(f, script) THEN Unlink(f, script) ELSE f

\* Calls are numbered in the order they are made.
NextCall(e) == exec[e].phase = "Idle" /\ \A x \in Execs : x < e => exec[x].phase # "Idle"

NoOp == [route |-> "none"]
eventsSoFar == LET RECURSIVE Sum(_)
                   Sum(S) == IF S = {} THEN 0
                             ELSE LET x == CHOOSE y \in S : TRUE
                                  IN  exec[x].nmsg + exec[x].nerr + Sum(S \ {x})
               IN  Sum(Execs)

\* Variant: the python shell is created whether or not the script was written.
executePythonCodeToAwaitUnwritten(e, format, write, spawn) ==
    /\ NextCall(e)
    /\ \E executionId \in uuidv4(usedIds) :
         LET script == pythonFile(executionId)
             written == IF write = "throws" THEN fs ELSE WriteFile(fs, script, now)
             launched == spawn = "ok"
         IN  /\ exec' = [exec EXCEPT ![e] =
                    [IdleExec EXCEPT !.phase = IF launched THEN "Running" ELSE "Done",
                                     !.id = executionId, !.format = format,
                                     !.started = now, !.launched = launched]]
             /\ fs' = IF launched THEN written ELSE finallyCleanup(written, script)
             /\ result' = IF launched THEN result
                          ELSE [result EXCEPT ![e] =
                                   catchResult(CHOOSE m \in ThrownMessages : TRUE)]
             /\ touched' = [touched EXCEPT ![e] = {script}]

\* executePythonCode up to its await (lines 39-52): the id and the two paths,
\* the script written, the python shell created. writeFileSync may throw
\* (leaving a partial file, or none) and so may the PythonShell constructor;
\* both end in the catch and the finally blocks.
executePythonCodeToAwait(e, format, write, spawn) ==
    /\ NextCall(e)
    /\ \E executionId \in uuidv4(usedIds) :
         LET script == pythonFile(executionId)
             written == IF write = "throws" THEN fs ELSE WriteFile(fs, script, now)
             launched == write = "ok" /\ spawn = "ok"
         IN  /\ exec' = [exec EXCEPT ![e] =
                    [IdleExec EXCEPT !.phase = IF launched THEN "Running" ELSE "Done",
                                     !.id = executionId, !.format = format,
                                     !.started = now, !.launched = launched]]
             /\ fs' = IF launched THEN written ELSE finallyCleanup(written, script)
             /\ result' = IF launched THEN result
                          ELSE [result EXCEPT ![e] =
                                   catchResult(CHOOSE m \in ThrownMessages : TRUE)]
             /\ touched' = [touched EXCEPT ![e] = {script}]

\* A call of executePythonCode by a caller the model does not follow.
executePythonCode(e, format, write, spawn) ==
    /\ executePythonCodeToAwait(e, format, write, spawn)
    /\ last' = NoOp
    /\ UNCHANGED <<now, response, parsed, visualize, enhanced, py,
                 uploads, issued, pending, client, infer, request, drawn>>

\* The enveloped script saves the figure to outputPath.
ScriptSave(e) ==
    /\ exec[e].phase = "Running"
    /\ LET chart == outputFile(exec[e].id, exec[e].format)
       IN  /\ ~Exists(fs, chart)
           /\ fs' = WriteFile(fs, chart, now)
           /\ touched' = [touched EXCEPT ![e] = @ \cup {chart}]
    /\ last' = NoOp
    /\ UNCHANGED <<now, exec, result, response, parsed, visualize, enhanced, py,
                 uploads, issued, pending, client, infer, request, drawn>>

\* pyshell 'message' event (lines 160-162).
ShellMessage(e, message) ==
    /\ exec[e].phase = "Running"
    /\ eventsSoFar < MaxEvents
    /\ exec' = [exec EXCEPT ![e].output = onMessage(@, message),
                            ![e].nmsg = @ + 1]
    /\ last' = NoOp
    /\ UNCHANGED <<now, fs, result, touched, response, parsed, visualize, enhanced, py,
                 uploads, issued, pending, client, infer, request, drawn>>

\* pyshell 'error' event (lines 164-166).
ShellError(e, message) ==
    /\ exec[e].phase = "Running"
    /\ eventsSoFar < MaxEvents
    /\ exec' = [exec EXCEPT ![e].error = onError(@, message),
                            ![e].nerr = @ + 1]
    /\ last' = NoOp
    /\ UNCHANGED <<now, fs, result, touched, response, parsed, visualize, enhanced, py,
                 uploads, issued, pending, client, infer, request, drawn>>

\* The python process has ended and the shell calls the end callback with err;
\* runPythonFile resolves and executePythonCode runs on to its return
\* (lines 168-178, 54-83) without yielding.
executePythonCodeFromAwait(e, err) ==
    /\ exec[e].phase = "Running"
    /\ LET script == pythonFile(exec[e].id)
           chart  == outputFile(exec[e].id, exec[e].format)
           r == runPythonFileResult(exec[e].output, exec[e].error, err)
           chartExists == Exists(fs, chart)
       IN  /\ result' = [result EXCEPT ![e] =
                  executionResult(r, chartExists, fs, chart, exec[e].format)]
           /\ exec' = [exec EXCEPT ![e].phase = "Done", ![e].endErr = err.some,
                                   ![e].chartExists = chartExists]
           /\ fs' = finallyCleanup(fs, script)
           /\ touched' = [touched EXCEPT ![e] = @ \cup {script, chart}]

\* The end of a python process the model does not follow step by step.
ProcessEnd(e, err) ==
    /\ executePythonCodeFromAwait(e, err)
    /\ last' = NoOp
    /\ UNCHANGED <<now, response, parsed, visualize, enhanced, py,
                 uploads, issued, pending, client, infer, request, drawn>>

\* The wall clock advances.
Tick ==
    /\ now < MaxTime
    /\ now' = now + 1
    /\ last' = NoOp
    /\ UNCHANGED <<fs, exec, result, touched, response, parsed, visualize, enhanced, py,
                 uploads, issued, pending, client, infer, request, drawn>>

\* ---------------------------------------------------------------- retention sweep
\* cleanupDirectory (lines 207-218) from entry i of the listing on: statSync
\* throws on a dangling link and unlinkSync throws on a directory; a throw
\* leaves the loop.
RECURSIVE cleanupDirectory(_, _, _, _, _)
cleanupDirectory(f, files, i, currentTime, maxAge) ==
    IF i > Len(files) THEN [fs |-> f, threw |-> FALSE]
    ELSE LET filePath == files[i]
         IN  IF f[filePath].kind = "link" THEN [fs |-> f, threw |-> TRUE]
             ELSE IF currentTime - f[filePath].mtime > maxAge
                  THEN IF f[filePath].kind = "dir" THEN [fs |-> f, threw |-> TRUE]
                       ELSE cleanupDirectory(Unlink(f, filePath), files, i + 1,
                                             currentTime, maxAge)
                  ELSE cleanupDirectory(f, files, i + 1, currentTime, maxAge)

\* cleanupOldFiles (lines 201-225): the temp directory, then the output
\* directory, inside one try block.
cleanupOldFiles(f, tempFiles, outputFiles, currentTime, maxAge) ==
    LET t == cleanupDirectory(f, tempFiles, 1, currentTime, maxAge)
    IN  IF t.threw THEN t.fs
        ELSE cleanupDirectory(t.fs, outputFiles, 1, currentTime, maxAge).fs

Sweep(maxAge) ==
    /\ \E tempFiles \in Orders(DirEntries(fs, "temp")),
          outputFiles \in Orders(DirEntries(fs, "output")) :
         fs' = cleanupOldFiles(fs, tempFiles, outputFiles, now, maxAge)
    /\ last' = [route |-> "sweep", before |-> fs, at |-> now, maxAge |-> maxAge]
    /\ UNCHANGED <<now, exec, result, touched, response, parsed, visualize, enhanced, py,
                 uploads, issued, pending, client, infer, request, drawn>>

\* ---------------------------------------------------------------- results routes
\* The filenames callers ask for.
Filenames == { outputFile(i, f) : i \in Ids, f \in RequestFormats }

\* getContentType (lines 444-459), the table the metadata route names.
getContentType(ext) ==
    CASE ext = "png" -> "image/png"
      [] ext \in {"jpg", "jpeg"} -> "image/jpeg"
      [] ext = "svg" -> "image/svg+xml"
      [] ext = "html" -> "text/html"
      [] OTHER -> "application/octet-stream"

\* The switch of GET /charts/:filename (lines 248-263).
viewContentType(ext) ==
    CASE ext = "png" -> "image/png"
      [] ext \in {"jpg", "jpeg"} -> "image/jpeg"
      [] ext = "svg" -> "image/svg+xml"
      [] ext = "html" -> "text/html"
      [] OTHER -> "application/octet-stream"

\* GET /charts/:filename (lines 235-275); readFileSync throws on a directory.
ViewChart(chartPath) ==
    /\ last' = IF ~Exists(fs, chartPath)
               THEN [route |-> "view", status |-> 404, filename |-> chartPath,
                     contentType |-> "application/json"]
               ELSE IF fs[chartPath].kind = "dir"
               THEN [route |-> "view", status |-> 500, filename |-> chartPath,
                     contentType |-> "application/json"]
               ELSE [route |-> "view", status |-> 200, filename |-> chartPath,
                     contentType |-> viewContentType(chartPath.ext)]
    /\ UNCHANGED <<now, fs, exec, result, touched, response, parsed, visualize, enhanced, py,
                 uploads, issued, pending, client, infer, request, drawn>>

\* GET /download/:filename (lines 278-303).
DownloadChart(chartPath) ==
    /\ last' = IF ~Exists(fs, chartPath)
               THEN [route |-> "download", status |-> 404, filename |-> chartPath]
               ELSE IF fs[chartPath].kind = "dir"
               THEN [route |-> "download", status |-> 500, filename |-> chartPath]
               ELSE [route |-> "download", status |-> 200, filename |-> chartPath]
    /\ UNCHANGED <<now, fs, exec, result, touched, response, parsed, visualize, enhanced, py,
                 uploads, issued, pending, client, infer, request, drawn>>

\* GET /charts/:filename/metadata (lines 306-339): `this` is not an object
\* with getContentType in the handler, so building the metadata throws.
ChartMetadata(chartPath) ==
    /\ last' = IF ~Exists(fs, chartPath)
               THEN [route |-> "metadata", status |-> 404, filename |-> chartPath]
               ELSE [route |-> "metadata", status |-> 500, filename |-> chartPath]
    /\ UNCHANGED <<now, fs, exec, result, touched, response, parsed, visualize, enhanced, py,
                 uploads, issued, pending, client, infer, request, drawn>>

ListedExtensions == {"png", "jpg", "jpeg", "svg", "html"}

\* Variant: the listing in the order readdirSync gave, with no sort.
ListChartsUnsorted ==
    /\ LET files == { p \in DirEntries(fs, "output") : p.ext \in ListedExtensions }
       IN  IF \E p \in files : fs[p].kind = "link"
           THEN last' = [route |-> "list", status |-> 500, charts |-> <<>>]
           ELSE \E charts \in Orders(files) :
                  last' = [route |-> "list", status |-> 200, charts |-> charts]
    /\ UNCHANGED <<now, fs, exec, result, touched, response, parsed, visualize, enhanced, py,
                 uploads, issued, pending, client, infer, request, drawn>>
\* GET /charts (lines 342-387): the entries with a chart extension, sorted by
\* modification time descending; statSync throws on a dangling link.
ListCharts ==
    /\ LET files == { p \in DirEntries(fs, "output") : p.ext \in ListedExtensions }
       IN  IF \E p \in files : fs[p].kind = "link"
           THEN last' = [route |-> "list", status |-> 500, charts |-> <<>>]
           ELSE \E charts \in Orders(files) :
                  /\ \A i \in 1 .. Len(charts) - 1 :
                        fs[charts[i]].mtime >= fs[charts[i + 1]].mtime
                  /\ last' = [route |-> "list", status |-> 200, charts |-> charts]
    /\ UNCHANGED <<now, fs, exec, result, touched, response, parsed, visualize, enhanced, py,
                 uploads, issued, pending, client, infer, request, drawn>>

\* Variant: deleting a missing chart answers like deleting a present one.
DeleteChartSilent(chartPath) ==
    /\ last' = [route |-> "delete", status |-> 200, filename |-> chartPath]
    /\ fs' = IF Exists(fs, chartPath) THEN Unlink(fs, chartPath) ELSE fs
    /\ UNCHANGED <<now, exec, result, touched, response, parsed, visualize, enhanced, py,
                 uploads, issued, pending, client, infer, request, drawn>>
\* DELETE /charts/:filename (lines 422-442); unlinkSync throws on a directory.
DeleteChart(chartPath) ==
    /\ IF ~Exists(fs, chartPath)
       THEN /\ last' = [route |-> "delete", status |-> 404, filename |-> chartPath]
            /\ fs' = fs
       ELSE IF fs[chartPath].kind = "dir"
       THEN /\ last' = [route |-> "delete", status |-> 500, filename |-> chartPath]
            /\ fs' = fs
       ELSE /\ last' = [route |-> "delete", status |-> 200, filename |-> chartPath]
            /\ fs' = Unlink(fs, chartPath)
    /\ UNCHANGED <<now, exec, result, touched, response, parsed, visualize, enhanced, py,
                 uploads, issued, pending, client, infer, request, drawn>>

\* The filename parameter of a results route, as path.join sees it: the
\* decoded parameter split at its separators ('..%2Ftemp%2F<id>.py' arrives as
\* '../temp/<id>.py'). A segment is '..', a directory name or a file name.
Up == [name |-> "..", id |-> 0, ext |-> ""]
Dir(name) == [name |-> name, id |-> 0, ext |-> ""]
File(id, ext) == [name |-> "file", id |-> id, ext |-> ext]

\* path.join normalises: '..' removes the segment before it.
RECURSIVE normalize(_, _)
normalize(stack, segments) ==
    IF segments = <<>> THEN stack
    ELSE LET s == Head(segments)
             popped == IF stack = <<>> THEN <<>> ELSE SubSeq(stack, 1, Len(stack) - 1)
         IN  normalize(IF s = Up THEN popped ELSE Append(stack, s), Tail(segments))

\* join(process.cwd(), 'output', filename) (lines 238, 282, 309, 425), as a
\* path of the model; NoPath for a path that is no file of temp/ or output/.
joinOutput(filename) ==
    LET path == normalize(<<Dir("output")>>, filename)
    IN  IF Len(path) = 2 /\ path[1].name \in {"temp", "output"} /\ path[2].name = "file"
        THEN [dir |-> path[1].name, id |-> path[2].id, ext |-> path[2].ext]
        ELSE NoPath

\* The parameters a caller sends: a plain file name, or one that climbs out
\* of output/ and into a directory beside it (or back into output/).
FilenameParams ==
    { n \in { <<File(i, x)>> : i \in Ids, x \in {"png", "html", "py"} } \cup
            { <<Up, Dir(d), File(i, x)>> :
                d \in {"temp", "output"}, i \in Ids, x \in {"png", "html", "py"} } :
        joinOutput(n) \in Paths }

\* ---------------------------------------------------------------- parseAIResponse
\* A raw reply is a sequence of tokens: each of the four section tags is one
\* token (no tag is part of or overlaps another, so a string splits into tags
\* and other characters in one way only), a blank, or another character.
Tags == {"ANALYSIS:", "CODE:", "VISUALIZATION_TYPE:", "EXPLANATION:"}
Alphabet == Tags \cup {" ", "x"}
Replies == UNION { [1 .. n -> Alphabet] : n \in 0 .. MaxLen }

NoMatch == [matched |-> FALSE, group |-> <<>>]

\* Variant: response.match(/TAG:\s*(.*)(?=...|$)/s), whose greedy group runs to
\* the last place the lookahead holds, the end of the text.
matchSectionGreedy(text, tag) ==
    IF \A i \in 1 .. Len(text) : text[i] # tag THEN NoMatch
    ELSE LET start == CHOOSE i \in 1 .. Len(text) :
                         text[i] = tag /\ \A j \in 1 .. i - 1 : text[j] # tag
             from == CHOOSE j \in start + 1 .. Len(text) + 1 :
                        /\ \A k \in start + 1 .. j - 1 : text[k] \in WhiteSpace
                        /\ j <= Len(text) => text[j] \notin WhiteSpace
         IN  [matched |-> TRUE, group |-> SubSeq(text, from, Len(text))]

\* response.match(/TAG:\s*(.*?)(?=OTHER1:|OTHER2:|OTHER3:|$)/s) (lines 159-162):
\* the leftmost TAG:, then all the blanks after it, then group 1 up to the
\* nearest place where one of the three other tags, or the end of the text,
\* follows. The lookahead always holds at the end, so the leftmost TAG: matches.
matchSection(text, tag) ==
    IF \A i \in 1 .. Len(text) : text[i] # tag THEN NoMatch
    ELSE LET start == CHOOSE i \in 1 .. Len(text) :
                         text[i] = tag /\ \A j \in 1 .. i - 1 : text[j] # tag
             from == CHOOSE j \in start + 1 .. Len(text) + 1 :
                        /\ \A k \in start + 1 .. j - 1 : text[k] \in WhiteSpace
                        /\ j <= Len(text) => text[j] \notin WhiteSpace
             Lookahead(k) == k = Len(text) + 1 \/ text[k] \in Tags \ {tag}
             to == CHOOSE k \in from .. Len(text) + 1 :
                      Lookahead(k) /\ \A m \in from .. k - 1 : ~Lookahead(m)
         IN  [matched |-> TRUE, group |-> SubSeq(text, from, to - 1)]

Placeholder(tag) ==
    CASE tag = "ANALYSIS:" -> <<"Analysis not provided">>
      [] tag = "CODE:" -> <<"print(\"No code generated\")">>
      [] tag = "VISUALIZATION_TYPE:" -> <<"Unknown">>
      [] tag = "EXPLANATION:" -> <<"Explanation not provided">>

\* Variant: match?.[1]?.trim() with no placeholder.
sectionOrNothing(text, tag) ==
    LET m == matchSection(text, tag)
    IN  IF m.matched THEN Trim(m.group) ELSE <<>>
\* match?.[1]?.trim() || placeholder (lines 165-168)
sectionOrPlaceholder(text, tag) ==
    LET m == matchSection(text, tag)
    IN  IF m.matched /\ Trim(m.group) # <<>> THEN Trim(m.group) ELSE Placeholder(tag)

parseAIResponse(text) ==
    [done |-> TRUE,
     analysis |-> sectionOrPlaceholder(text, "ANALYSIS:"),
     pythonCode |-> sectionOrPlaceholder(text, "CODE:"),
     visualizationType |-> sectionOrPlaceholder(text, "VISUALIZATION_TYPE:"),
     explanation |-> sectionOrPlaceholder(text, "EXPLANATION:")]

\* The field of the parsed reply that belongs to a tag.
Field(r, tag) ==
    CASE tag = "ANALYSIS:" -> r.analysis
      [] tag = "CODE:" -> r.pythonCode
      [] tag = "VISUALIZATION_TYPE:" -> r.visualizationType
      [] tag = "EXPLANATION:" -> r.explanation

NoReply == <<>>
NotParsed == [done |-> FALSE]

\* The provider's reply reaches parseAIResponse.
Parse ==
    /\ ~parsed.done
    /\ parsed' = parseAIResponse(response)
    /\ UNCHANGED <<now, fs, exec, result, touched, last, response, visualize, enhanced, py,
                 uploads, issued, pending, client, infer, request, drawn>>

\* ---------------------------------------------------------------- POST /visualize
\* request.model: the four values the request type admits (aiService.ts line 14).
Models == {"openai", "gemini", "claude", "deepseek"}
\* The providers analyzeData has a branch for (lines 50-58).
Providers == {"openai", "gemini", "claude"}
\* Raw replies of a provider: none of the tags, all four, the code alone.
ProviderReplies ==
    { <<>>,
      <<"ANALYSIS:", "a", "CODE:", "c", "VISUALIZATION_TYPE:", "v", "EXPLANATION:", "e">>,
      <<"CODE:", "c">> }
\* error.message of a failed provider call.
ProviderErrorMessages == { <<"P">> }

MissingRequiredFields == <<"Missing required fields">>
DatasetNotFound == <<"Dataset not found">>
InternalServerError == <<"Internal server error during analysis">>
\* `Unsupported AI model: ${model}` (line 60)
UnsupportedModel(model) == <<"Unsupported AI model: ", model>>
\* `AI analysis failed: ${error.message}` (line 70)
AnalysisFailed(message) == <<"AI analysis failed: ">> \o message

NoAnalysis == [given |-> FALSE, analysis |-> <<>>, visualizationType |-> <<>>,
               explanation |-> <<>>]
\* The analysis object of the two answers that carry one (lines 56-63, 77-84).
analysisOf(aiResponse) ==
    [given |-> TRUE, analysis |-> aiResponse.analysis,
     visualizationType |-> aiResponse.visualizationType,
     explanation |-> aiResponse.explanation]

\* An answer of the handler: res.status(...).json(...).
Answer(status, success, analysis, error, details, chartPath, output) ==
    [status |-> status, success |-> success, analysis |-> analysis,
     error |-> error, details |-> details, chartPath |-> chartPath,
     output |-> output]

NoCalls == [p \in Providers |-> 0]
NoRequest == [phase |-> "Idle", aiModel |-> "", outputFormat |-> "",
              calls |-> NoCalls, modelFailed |-> FALSE, responses |-> <<>>,
              escaped |-> FALSE]

\* Variant: a model without a branch falls back to the first provider.
analyzeDataFallback(model) == IF model \in Providers THEN {model} ELSE {"openai"}
\* The switch of analyzeData (lines 49-61): the provider it calls, if any.
analyzeDataSwitch(model) == IF model \in Providers THEN {model} ELSE {}

\* Variant: the handler has no catch and the error leaves it.
rethrowAnalysisError(v, message) ==
    [v EXCEPT !.phase = "Done", !.escaped = TRUE]
\* The catch block of the handler (lines 92-98).
catchAnalysisError(v, message) ==
    [v EXCEPT !.phase = "Done",
              !.responses = Append(@, Answer(500, "absent", NoAnalysis,
                                             Some(InternalServerError),
                                             Some(message), NoPath, Undefined))]

\* Variant: the failure answer without the analysis.
visualizeAnswerNoAnalysis(aiResponse, executionResult_, outputFormat) ==
    IF executionResult_.success /\ executionResult_.chartPath # NoPath
    THEN Answer(200, "true", analysisOf(aiResponse), Undefined, Undefined,
                executionResult_.chartPath, Some(executionResult_.output))
    ELSE Answer(400, "false", NoAnalysis,
                OrElse(executionResult_.error, Some(ChartGenerationFailed)),
                Undefined, NoPath, Some(executionResult_.output))
\* The two answers after the sandbox has returned (lines 53-91).
visualizeAnswer(aiResponse, executionResult_, outputFormat) ==
    IF executionResult_.success /\ executionResult_.chartPath # NoPath
    THEN Answer(200, "true", analysisOf(aiResponse), Undefined, Undefined,
                executionResult_.chartPath, Some(executionResult_.output))
    ELSE Answer(400, "false", analysisOf(aiResponse),
                OrElse(executionResult_.error, Some(ChartGenerationFailed)),
                Undefined, NoPath, Some(executionResult_.output))

\* The request arrives and its fields are validated (lines 14-24).
VisualizeRequest(query, datasetId, aiModel, outputFormat) ==
    /\ visualize.phase = "Idle"
    /\ visualize' =
          IF query = "" \/ datasetId = "" \/ aiModel = "" \/ outputFormat = ""
          THEN [visualize EXCEPT
                  !.phase = "Done", !.aiModel = aiModel, !.outputFormat = outputFormat,
                  !.responses = Append(@, Answer(400, "absent", NoAnalysis,
                                                 Some(MissingRequiredFields),
                                                 Undefined, NoPath, Undefined))]
          ELSE [visualize EXCEPT !.phase = "Dataset", !.aiModel = aiModel,
                                 !.outputFormat = outputFormat]
    /\ last' = NoOp
    /\ UNCHANGED <<now, fs, exec, result, touched, response, parsed, enhanced, py,
                 uploads, issued, pending, client, infer, request, drawn>>

\* getDatasetInfo has resolved (lines 24-44); with a dataset the handler goes
\* on into analyzeData (aiService.ts lines 43-61) up to the provider call.
DatasetInfo(found) ==
    /\ visualize.phase = "Dataset"
    /\ visualize' =
          IF ~found
          THEN [visualize EXCEPT
                  !.phase = "Done",
                  !.responses = Append(@, Answer(404, "absent", NoAnalysis,
                                                 Some(DatasetNotFound),
                                                 Undefined, NoPath, Undefined))]
          ELSE IF analyzeDataSwitch(visualize.aiModel) = {}
          THEN catchAnalysisError([visualize EXCEPT !.modelFailed = TRUE],
                                  AnalysisFailed(UnsupportedModel(visualize.aiModel)))
          ELSE [visualize EXCEPT
                  !.phase = "Model",
                  !.calls = [p \in Providers |->
                               IF p \in analyzeDataSwitch(visualize.aiModel)
                               THEN @[p] + 1 ELSE @[p]]]
    /\ last' = NoOp
    /\ UNCHANGED <<now, fs, exec, result, touched, response, parsed, enhanced, py,
                 uploads, issued, pending, client, infer, request, drawn>>

\* The provider call rejects: analyzeData rethrows (aiService.ts lines 68-71)
\* and the handler catches.
ProviderFails(message) ==
    /\ visualize.phase = "Model"
    /\ visualize' = catchAnalysisError([visualize EXCEPT !.modelFailed = TRUE],
                                       AnalysisFailed(message))
    /\ last' = NoOp
    /\ UNCHANGED <<now, fs, exec, result, touched, response, parsed, enhanced, py,
                 uploads, issued, pending, client, infer, request, drawn>>

\* The provider call resolves: the reply is parsed, analyzeData returns, and
\* the handler calls executePythonCode, which runs up to its await, or to its
\* return when the script cannot be written or the shell cannot be created.
ProviderReply(reply, write, spawn) ==
    /\ visualize.phase = "Model"
    /\ response' = reply
    /\ parsed' = parseAIResponse(reply)
    /\ executePythonCodeToAwait(1, visualize.outputFormat, write, spawn)
    /\ visualize' =
          IF result'[1].returned
          THEN [visualize EXCEPT
                  !.phase = "Done",
                  !.responses = Append(@, visualizeAnswer(parsed', result'[1],
                                                          visualize.outputFormat))]
          ELSE [visualize EXCEPT !.phase = "Sandbox"]
    /\ last' = NoOp
    /\ UNCHANGED <<now, enhanced, py,
                 uploads, issued, pending, client, infer, request, drawn>>

\* The python process ends; executePythonCode returns and the handler answers.
SandboxEnd(err) ==
    /\ visualize.phase = "Sandbox"
    /\ executePythonCodeFromAwait(1, err)
    /\ visualize' =
          [visualize EXCEPT
             !.phase = "Done",
             !.responses = Append(@, visualizeAnswer(parsed, result'[1],
                                                     visualize.outputFormat))]
    /\ last' = NoOp
    /\ UNCHANGED <<now, response, parsed, enhanced, py,
                 uploads, issued, pending, client, infer, request, drawn>>

\* ---------------------------------------------------------------- POST /preview, POST /execute
\* The two other handlers of analysisController.ts that look a dataset up.
MissingPreviewFields == <<"Missing required fields: query, datasetId, aiModel">>
MissingExecuteFields == <<"Missing required fields: pythonCode, datasetId, outputFormat">>
PreviewServerError == <<"Internal server error during analysis preview">>
CodeExecutionFailed == <<"Code execution failed">>

NoRoute == [route |-> "none", phase |-> "Idle", aiModel |-> "", outputFormat |-> "",
            exec |-> 0, calls |-> NoCalls, responses |-> <<>>]

\* Variant: the provider is called before the dataset is known to exist.
providersBeforeLookup(found, aiModel) == analyzeDataSwitch(aiModel)
\* The provider analyzeData calls once getDatasetInfo has resolved
\* (lines 112-130): none without a dataset.
providersAfterLookup(found, aiModel) ==
    IF found THEN analyzeDataSwitch(aiModel) ELSE {}

\* The answers of /execute after the sandbox has returned (lines 177-199).
executeAnswer(executionResult_) ==
    IF executionResult_.success /\ executionResult_.chartPath # NoPath
    THEN Answer(200, "true", NoAnalysis, Undefined, Undefined,
                executionResult_.chartPath, Some(executionResult_.output))
    ELSE Answer(400, "false", NoAnalysis,
                OrElse(executionResult_.error, Some(CodeExecutionFailed)),
                Undefined, NoPath, Some(executionResult_.output))

\* POST /preview arrives and its fields are validated (lines 104-110).
PreviewRequest(query, datasetId, aiModel) ==
    /\ request.phase = "Idle"
    /\ request' =
          IF query = "" \/ datasetId = "" \/ aiModel = ""
          THEN [request EXCEPT
                  !.route = "preview", !.phase = "Done", !.aiModel = aiModel,
                  !.responses = Append(@, Answer(400, "absent", NoAnalysis,
                                                 Some(MissingPreviewFields),
                                                 Undefined, NoPath, Undefined))]
          ELSE [request EXCEPT !.route = "preview", !.phase = "Dataset",
                               !.aiModel = aiModel]
    /\ last' = NoOp
    /\ UNCHANGED <<now, fs, exec, result, touched, response, parsed, visualize,
                   enhanced, py, uploads, issued, pending, client, infer, drawn>>

\* POST /execute arrives and its fields are validated (lines 156-162).
ExecuteRequest(pythonCode, datasetId, outputFormat) ==
    /\ request.phase = "Idle"
    /\ request' =
          IF pythonCode = "" \/ datasetId = "" \/ outputFormat = ""
          THEN [request EXCEPT
                  !.route = "execute", !.phase = "Done", !.outputFormat = outputFormat,
                  !.responses = Append(@, Answer(400, "absent", NoAnalysis,
                                                 Some(MissingExecuteFields),
                                                 Undefined, NoPath, Undefined))]
          ELSE [request EXCEPT !.route = "execute", !.phase = "Dataset",
                               !.outputFormat = outputFormat]
    /\ last' = NoOp
    /\ UNCHANGED <<now, fs, exec, result, touched, response, parsed, visualize,
                   enhanced, py, uploads, issued, pending, client, infer, drawn>>

\* getDatasetInfo has resolved for /preview (lines 112-130); with a dataset
\* the handler goes on into analyzeData up to the provider call, and a model
\* without a branch makes analyzeData throw into the catch (lines 144-150).
PreviewDataset(found) ==
    /\ request.route = "preview" /\ request.phase = "Dataset"
    /\ LET called == providersAfterLookup(found, request.aiModel)
           counted == [request EXCEPT
                         !.calls = [p \in Providers |->
                                      IF p \in called THEN @[p] + 1 ELSE @[p]]]
       IN  request' =
             IF ~found
             THEN [counted EXCEPT
                     !.phase = "Done",
                     !.responses = Append(@, Answer(404, "absent", NoAnalysis,
                                                    Some(DatasetNotFound),
                                                    Undefined, NoPath, Undefined))]
             ELSE IF called = {}
             THEN [counted EXCEPT
                     !.phase = "Done",
                     !.responses = Append(@, Answer(500, "absent", NoAnalysis,
                                Some(PreviewServerError),
                                Some(AnalysisFailed(UnsupportedModel(request.aiModel))),
                                NoPath, Undefined))]
             ELSE [counted EXCEPT !.phase = "Model"]
    /\ last' = NoOp
    /\ UNCHANGED <<now, fs, exec, result, touched, response, parsed, visualize,
                   enhanced, py, uploads, issued, pending, client, infer, drawn>>

\* The provider call of /preview rejects (lines 144-150).
PreviewProviderFails(message) ==
    /\ request.route = "preview" /\ request.phase = "Model"
    /\ request' = [request EXCEPT
                     !.phase = "Done",
                     !.responses = Append(@, Answer(500, "absent", NoAnalysis,
                                                    Some(PreviewServerError),
                                                    Some(AnalysisFailed(message)),
                                                    NoPath, Undefined))]
    /\ last' = NoOp
    /\ UNCHANGED <<now, fs, exec, result, touched, response, parsed, visualize,
                   enhanced, py, uploads, issued, pending, client, infer, drawn>>

\* The provider call of /preview resolves: the reply is parsed and the
\* analysis is the answer (lines 132-143).
PreviewProviderReply(reply) ==
    /\ request.route = "preview" /\ request.phase = "Model"
    /\ response' = reply
    /\ parsed' = parseAIResponse(reply)
    /\ request' = [request EXCEPT
                     !.phase = "Done",
                     !.responses = Append(@, Answer(200, "true", analysisOf(parsed'),
                                                    Undefined, Undefined, NoPath,
                                                    Undefined))]
    /\ last' = NoOp
    /\ UNCHANGED <<now, fs, exec, result, touched, visualize,
                   enhanced, py, uploads, issued, pending, client, infer, drawn>>

\* getDatasetInfo has resolved for /execute (lines 164-175); with a dataset
\* the handler calls executePythonCode, which runs up to its await, or to its
\* return when the script cannot be written or the shell cannot be created.
ExecuteDataset(found, write, spawn) ==
    /\ request.route = "execute" /\ request.phase = "Dataset"
    /\ \/ /\ ~found
          /\ request' = [request EXCEPT
                           !.phase = "Done",
                           !.responses = Append(@, Answer(404, "absent", NoAnalysis,
                                                          Some(DatasetNotFound),
                                                          Undefined, NoPath, Undefined))]
          /\ UNCHANGED <<fs, exec, result, touched>>
       \/ /\ found
          /\ \E e \in Execs :
                /\ executePythonCodeToAwait(e, request.outputFormat, write, spawn)
                /\ request' =
                      IF result'[e].returned
                      THEN [request EXCEPT
                              !.phase = "Done", !.exec = e,
                              !.responses = Append(@, executeAnswer(result'[e]))]
                      ELSE [request EXCEPT !.phase = "Sandbox", !.exec = e]
    /\ last' = NoOp
    /\ UNCHANGED <<now, response, parsed, visualize, enhanced, py, uploads, issued,
                   pending, client, infer, drawn>>

\* The python process of /execute ends; executePythonCode returns and the
\* handler answers (lines 177-199).
ExecuteEnd(err) ==
    /\ request.route = "execute" /\ request.phase = "Sandbox"
    /\ executePythonCodeFromAwait(request.exec, err)
    /\ request' = [request EXCEPT
                     !.phase = "Done",
                     !.responses = Append(@, executeAnswer(result'[request.exec]))]
    /\ last' = NoOp
    /\ UNCHANGED <<now, response, parsed, visualize, enhanced, py, uploads, issued,
                   pending, client, infer, drawn>>

\* ---------------------------------------------------------------- enhancePythonCode
\* Python source is a sequence of tokens: a statement, a blank, a newline, or
\* a piece of the envelope's own text.
CodeAlphabet == {"x", " ", "\n", "try:"}
Codes == UNION { [1 .. n -> CodeAlphabet] : n \in 0 .. MaxCode }
DatasetPaths == {"uploads/a.csv", "uploads/b.csv"}
OutputPaths == {"output/1", "output/2"}

\* setupCode (lines 86-116), with ${datasetPath} filled in.
setupCode(datasetPath) ==
    <<"\n", "import ...", "try:", "df = pd.read_csv('", datasetPath, "')",
      "except Exception as e:", "exit(1)", "plt.rcParams[...] = ...", "\n">>
\* cleanupCode (lines 118-141), with ${outputPath} and ${format} filled in.
cleanupCode(outputPath, format) ==
    <<"\n", "try:", "if format == 'html':",
      "if 'fig' in locals() and hasattr(fig, 'write_html'):",
      "fig.write_html('", outputPath, "')",
      "else:", "plotly_fig = tls.mpl_to_plotly(plt.gcf())",
      "plotly_fig.write_html('", outputPath, "')",
      "else:", "plt.tight_layout()",
      "plt.savefig('", outputPath, "', format='", format, "', dpi=300, bbox_inches='tight')",
      "print(f\"Chart saved successfully to: ", outputPath, "\")",
      "except Exception as e:", "exit(1)",
      "print(\"\\n=== EXECUTION COMPLETED ===\")", "\n">>

\* Variant: the code is trimmed before it is enveloped.
enhancePythonCodeTrimmed(originalCode, datasetPath, outputPath, format) ==
    setupCode(datasetPath) \o Trim(originalCode) \o cleanupCode(outputPath, format)
\* return setupCode + originalCode + cleanupCode (line 143)
enhancePythonCode(originalCode, datasetPath, outputPath, format) ==
    setupCode(datasetPath) \o originalCode \o cleanupCode(outputPath, format)

NotEnhanced == [done |-> FALSE, originalCode |-> <<>>, datasetPath |-> "",
                outputPath |-> "", format |-> "", script |-> <<>>]

\* enhancePythonCode is applied to its arguments.
Enhance ==
    /\ ~enhanced.done
    /\ enhanced' = [enhanced EXCEPT
                      !.done = TRUE,
                      !.script = enhancePythonCode(enhanced.originalCode,
                                     enhanced.datasetPath, enhanced.outputPath,
                                     enhanced.format)]
    /\ UNCHANGED <<now, fs, exec, result, touched, last, response, parsed,
                   visualize, py,
                 uploads, issued, pending, client, infer, request, drawn>>

\* ---------------------------------------------------------------- the enveloped script
\* The python process of call 1, statement by statement. The caller-supplied
\* code runs in the module namespace of the script: it may bind the names
\* format and fig, which the epilogue reads.
NotStarted == [pc |-> "none", format |-> "builtin", fig |-> "unbound",
               branch |-> "none", saveRaised |-> FALSE, exitCode |-> 0]

\* What the python name format is bound to after the caller's code: the
\* builtin function, the string 'html', or another value.
PyFormats == {"builtin", "html", "other"}
\* What the python name fig is bound to: nothing, a plotly figure (it has
\* write_html), or another object.
PyFigs == {"unbound", "plotly", "other"}

\* The branch the epilogue takes (lines 121-133): `format` is the python name.
epilogueBranch(pyFormat, pyFig) ==
    IF pyFormat = "html"
    THEN IF pyFig = "plotly" THEN "fig.write_html" ELSE "mpl_to_plotly"
    ELSE "savefig"

\* Variant: the except block prints and the script runs on to its end.
epilogueExitSilent(raised) == 0
\* The exit status the epilogue gives (lines 136-140): exit(1) in the except
\* block, the normal end otherwise.
epilogueExit(raised) == IF raised THEN 1 ELSE 0

\* The err the python shell hands to the end callback (lines 168-171): an
\* error for a non-zero exit status, none for exit status 0.
endError(exitCode) == IF exitCode # 0 THEN Some(<<"E">>) ELSE Undefined

\* setupCode runs (lines 101-110): exit(1) when the dataset cannot be loaded.
ScriptSetup(loaded) ==
    /\ exec[1].phase = "Running"
    /\ py.pc = "none"
    /\ py' = IF loaded THEN [py EXCEPT !.pc = "code"]
             ELSE [py EXCEPT !.pc = "exited", !.exitCode = 1]
    /\ last' = NoOp
    /\ UNCHANGED <<now, fs, exec, result, touched, response, parsed, visualize,
                   enhanced,
                 uploads, issued, pending, client, infer, request, drawn>>

\* The caller-supplied code runs: it binds names, or raises and ends the
\* process with the status of an uncaught exception.
ScriptCode(pyFormat, pyFig, raises) ==
    /\ py.pc = "code"
    /\ py' = IF raises THEN [py EXCEPT !.pc = "exited", !.exitCode = 1]
             ELSE [py EXCEPT !.pc = "epilogue", !.format = pyFormat, !.fig = pyFig]
    /\ last' = NoOp
    /\ UNCHANGED <<now, fs, exec, result, touched, response, parsed, visualize,
                   enhanced,
                 uploads, issued, pending, client, infer, request, drawn>>

\* The caller-supplied code enters a loop it never leaves: the process neither
\* exits nor writes anything more. runPythonFile (lines 146-180) sets no timer
\* and never kills the shell, so nothing follows.
ScriptLoops ==
    /\ py.pc = "code"
    /\ py' = [py EXCEPT !.pc = "looping"]
    /\ last' = NoOp
    /\ UNCHANGED <<now, fs, exec, result, touched, response, parsed, visualize,
                   enhanced, uploads, issued, pending, client, infer, request,
                   drawn>>

\* cleanupCode runs (lines 120-140). The save writes the output file, or
\* raises, with or without a partial file left; savefig has no html writer
\* and raises before it opens the file.
ScriptEpilogue(save) ==
    /\ py.pc = "epilogue"
    /\ LET chart == outputFile(exec[1].id, exec[1].format)
           branch == epilogueBranch(py.format, py.fig)
           raised == save # "saved"
       IN  /\ (branch = "savefig" /\ exec[1].format = "html") => save = "raises"
           /\ py' = [py EXCEPT !.pc = "exited", !.branch = branch,
                               !.saveRaised = raised,
                               !.exitCode = epilogueExit(raised)]
           /\ fs' = IF save = "raises" THEN fs ELSE WriteFile(fs, chart, now)
           /\ touched' = [touched EXCEPT ![1] = @ \cup {chart}]
    /\ last' = NoOp
    /\ UNCHANGED <<now, exec, result, response, parsed, visualize, enhanced,
                 uploads, issued, pending, client, infer, request, drawn>>

\* The process has exited: the shell calls the end callback and
\* executePythonCode runs on to its return.
ScriptExit ==
    /\ py.pc = "exited"
    /\ executePythonCodeFromAwait(1, endError(py.exitCode))
    /\ py' = [py EXCEPT !.pc = "ended"]
    /\ last' = NoOp
    /\ UNCHANGED <<now, response, parsed, visualize, enhanced,
                 uploads, issued, pending, client, infer, request, drawn>>

\* ---------------------------------------------------------------- uploads
\* FileProcessingService and the upload routes. A file name is a sequence of
\* tokens, <<uuid, "-", timestamp, extension>>, so that String.includes is a
\* search for a contiguous run of tokens. A file holds nothing yet ("none"),
\* a header row only ("header": what processCSVFile and processExcelFile
\* reject, and what a file still being streamed holds), or a header and data
\* rows ("rows").

\* The tokens uuidv4() returns, in the order it returns them.
UuidTokens == <<"a", "b", "c", "d", "e", "f", "g", "h">>
Extensions == {".csv", ".xlsx"}
FileContents == {"header", "rows"}

\* getUploadMiddleware, filename (line 48).
uniqueName(uuid, time, ext) == <<uuid, "-", ToString(time), ext>>

UploadNames == { uniqueName(UuidTokens[i], t, x) :
                   i \in 1..MaxUuids, t \in Times, x \in Extensions }
EmptyUploadDir == [f \in UploadNames |-> "none"]

\* fs.readdirSync(this.uploadDir)
readdirSync(dir) == { f \in UploadNames : dir[f] # "none" }

\* String.prototype.includes
includes(s, sub) ==
    \E i \in 0..(Len(s) - Len(sub)) : SubSeq(s, i + 1, i + Len(sub)) = sub

\* The ids a caller sends: every id the service can have returned, and
\* strings that are no id at all.
DatasetIds == { <<UuidTokens[i]>> : i \in 1..MaxUuids } \cup { <<"-">>, <<".csv">> }

NoDataset == [id |-> "", filename |-> <<>>]

\* processUploadedFile (lines 72-101) on the directory dir: what it returns
\* and the directory it leaves. statSync throws on a missing file, the two
\* readers throw on a file without a data row; the catch block unlinks the
\* file if it exists. The DatasetInfo of a success carries a new uuid
\* (lines 121 and 160).
processUploadedFile(dir, filename, uuid) ==
    IF dir[filename] = "rows"
    THEN [success |-> TRUE, datasetInfo |-> [id |-> uuid, filename |-> filename],
          dir |-> dir]
    ELSE [success |-> FALSE, datasetInfo |-> NoDataset,
          dir |-> [dir EXCEPT ![filename] = "none"]]

\* The files getDatasetInfo and deleteDataset stop at: the first file of the
\* listing whose name includes the id. The order of the listing is the file
\* system's, so any of the matching files can be the first.
matching(dir, datasetId) == { f \in readdirSync(dir) : includes(f, datasetId) }

\* The JSON body of an answer of the upload route; "absent" is a field the
\* body does not have.
NoBody == [success |-> "absent", message |-> "absent", error |-> "absent",
           dataset |-> NoDataset]

\* The answers of router.post('/') (fileUploadController lines 16-25).
uploadAnswer(r) ==
    IF r.success /\ r.datasetInfo # NoDataset
    THEN [status |-> 201,
          body |-> [NoBody EXCEPT !.message = "Dataset uploaded successfully",
                                  !.dataset = r.datasetInfo]]
    ELSE [status |-> 400, body |-> [NoBody EXCEPT !.error = "File processing failed"]]

NoUpload == [phase |-> "Idle", ext |-> "", content |-> "none", filename |-> <<>>,
             status |-> 0, body |-> NoBody]

\* The page as Index first renders it (part_000 lines 21, 41-45): no dataset,
\* the upload view. answered is the status of the last answer the component
\* received.
FreshPage == [uploading |-> FALSE, toast |-> "none", currentDataset |-> NoDataset,
              answered |-> 0]

\* FileUpload.uploadFile up to its await (lines 93-117): a file has been
\* selected (ext, and what it holds), the request is sent.
uploadFile(ext, content) ==
    /\ client.currentDataset = NoDataset
    /\ ~client.uploading
    /\ pending.phase = "Idle"
    /\ drawn < MaxUuids
    /\ client' = [client EXCEPT !.uploading = TRUE]
    /\ pending' = [NoUpload EXCEPT !.phase = "Sent", !.ext = ext, !.content = content]
    /\ last' = NoOp
    /\ UNCHANGED <<now, fs, exec, result, touched, response, parsed, visualize,
                   enhanced, py, uploads, issued, infer, request, drawn>>

\* multer's disk storage (lines 42-51): the file is created under its unique
\* name and the body is streamed into it.
MulterStore ==
    /\ pending.phase = "Sent"
    /\ drawn < MaxUuids
    /\ LET filename == uniqueName(UuidTokens[drawn + 1], now, pending.ext)
       IN  /\ uploads' = [uploads EXCEPT ![filename] = "header"]
           /\ pending' = [pending EXCEPT !.phase = "Storing", !.filename = filename]
    /\ drawn' = drawn + 1
    /\ last' = NoOp
    /\ UNCHANGED <<now, fs, exec, result, touched, response, parsed, visualize,
                   enhanced, py, issued, client, infer, request>>

\* router.post('/') of the upload routes (lines 8-32), run when the stream
\* has ended: the file, unless unlinked meanwhile, is complete.
UploadHandler ==
    /\ pending.phase = "Storing"
    /\ drawn < MaxUuids
    /\ LET filename == pending.filename
           stored == IF uploads[filename] = "none" THEN uploads
                     ELSE [uploads EXCEPT ![filename] = pending.content]
           r == processUploadedFile(stored, filename, UuidTokens[drawn + 1])
       IN  /\ uploads' = r.dir
           /\ drawn' = IF r.success THEN drawn + 1 ELSE drawn
           /\ issued' = IF r.success THEN issued \cup {r.datasetInfo} ELSE issued
           /\ pending' = [pending EXCEPT !.phase = "Answered",
                             !.status = uploadAnswer(r).status,
                             !.body = uploadAnswer(r).body]
           /\ last' = [route |-> "upload", status |-> uploadAnswer(r).status]
    /\ UNCHANGED <<now, fs, exec, result, touched, response, parsed, visualize,
                   enhanced, py, client, infer, request>>

\* FileUpload.uploadFile from its await on (lines 119-149), and
\* Index.handleDatasetUploaded (part_000 lines 23-25).
uploadFileFromAwait ==
    /\ pending.phase = "Answered"
    /\ LET ok == pending.status \in 200..299
           result_ == pending.body
           shown == ok /\ result_.success = "true"
       IN  client' = [uploading |-> FALSE,
                      toast |-> IF shown THEN "Upload successful!" ELSE "Upload failed",
                      currentDataset |-> IF shown THEN result_.dataset
                                         ELSE client.currentDataset,
                      answered |-> pending.status]
    /\ pending' = NoUpload
    /\ last' = NoOp
    /\ UNCHANGED <<now, fs, exec, result, touched, response, parsed, visualize,
                   enhanced, py, uploads, issued, infer, request, drawn>>

\* getDatasetInfo (lines 223-253) behind router.get('/:datasetId')
\* (fileUploadController lines 35-56).
GetDataset(datasetId) ==
    /\ drawn < MaxUuids
    /\ \/ /\ matching(uploads, datasetId) = {}
          /\ last' = [route |-> "getDataset", datasetId |-> datasetId, status |-> 404,
                      file |-> <<>>, dataset |-> NoDataset, before |-> uploads]
          /\ UNCHANGED <<uploads, drawn>>
       \/ \E file \in matching(uploads, datasetId) :
            LET r == processUploadedFile(uploads, file, UuidTokens[drawn + 1])
            IN  /\ uploads' = r.dir
                /\ drawn' = IF r.success THEN drawn + 1 ELSE drawn
                /\ last' = [route |-> "getDataset", datasetId |-> datasetId,
                            status |-> IF r.success THEN 200 ELSE 404,
                            file |-> file, dataset |-> r.datasetInfo,
                            before |-> uploads]
    /\ UNCHANGED <<now, fs, exec, result, touched, response, parsed, visualize,
                   enhanced, py, issued, pending, client, infer, request>>

\* deleteDataset (lines 269-287) behind router.delete('/:datasetId')
\* (fileUploadController lines 59-79).
DeleteDataset(datasetId) ==
    /\ \/ /\ matching(uploads, datasetId) = {}
          /\ last' = [route |-> "deleteDataset", datasetId |-> datasetId,
                      status |-> 404, file |-> <<>>, dataset |-> NoDataset,
                      before |-> uploads]
          /\ UNCHANGED uploads
       \/ \E file \in matching(uploads, datasetId) :
            /\ uploads' = [uploads EXCEPT ![file] = "none"]
            /\ last' = [route |-> "deleteDataset", datasetId |-> datasetId,
                        status |-> 200, file |-> file, dataset |-> NoDataset,
                        before |-> uploads]
    /\ UNCHANGED <<now, fs, exec, result, touched, response, parsed, visualize,
                   enhanced, py, issued, pending, client, infer, request, drawn>>

\* ---------------------------------------------------------------- inferDataTypes
\* The cells of one column, row by row. "null" is null or undefined (a row
\* shorter than the header), "" the empty string; "42" and " " are what
\* Number() takes for a number, "2024-01-01" is what only Date.parse takes,
\* "abc" is what neither takes.
CellValues == {"null", "", "42", " ", "2024-01-01", "abc"}
Columns == UNION { [1..n -> CellValues] : n \in 0..MaxRows }

\* The filter of line 202.
nonEmpty(val) == val # "null" /\ val # ""
\* typeof v === 'number' || !isNaN(Number(v)) (line 211)
numeric(v) == v \in {"42", " "}
\* v instanceof Date || !isNaN(Date.parse(v)) (line 213)
dateLike(v) == v \in {"42", "2024-01-01"}

columnValues(column) == SelectSeq(column, nonEmpty)

typeOfValue(sampleValue) ==
    IF numeric(sampleValue) THEN "number"
    ELSE IF dateLike(sampleValue) THEN "date"
    ELSE "string"

\* Variant: the type of the last non-empty value.
inferDataTypeOfLast(column) ==
    LET values == columnValues(column)
    IN  IF Len(values) = 0 THEN "string" ELSE typeOfValue(values[Len(values)])

\* The body of the forEach of inferDataTypes (lines 201-218) for one column.
inferDataType(column) ==
    LET values == columnValues(column)
    IN  IF Len(values) = 0 THEN "string" ELSE typeOfValue(values[1])

NotInferred == [column |-> <<>>, done |-> FALSE, dataType |-> "none"]

\* inferDataTypes is applied to the column.
Infer ==
    /\ ~infer.done
    /\ infer' = [infer EXCEPT !.done = TRUE, !.dataType = inferDataType(infer.column)]
    /\ UNCHANGED <<now, fs, exec, result, touched, last, response, parsed,
                   visualize, enhanced, py, uploads, issued, pending, client,
                   request, drawn>>
Init ==
    /\ now = 0
    /\ fs = [p \in Paths |-> NoFile]
    /\ exec = [e \in Execs |-> IdleExec]
    /\ result = [e \in Execs |-> NoResult]
    /\ touched = [e \in Execs |-> {}]
    /\ last = NoOp
    /\ response = NoReply
    /\ parsed = NotParsed
    /\ visualize = NoRequest
    /\ enhanced = NotEnhanced
    /\ py = NotStarted
    /\ uploads = EmptyUploadDir
    /\ issued = {}
    /\ pending = NoUpload
    /\ client = FreshPage
    /\ infer = NotInferred
    /\ request = NoRoute
    /\ drawn = 0

Next ==
    \/ \E e \in Execs, format \in RequestFormats, write \in {"ok", "throws", "partial"},
          spawn \in {"ok", "throws"} : executePythonCode(e, format, write, spawn)
    \/ \E e \in Execs : ScriptSave(e)
    \/ \E e \in Execs, message \in StdoutMessages : ShellMessage(e, message)
    \/ \E e \in Execs, message \in ShellErrorMessages : ShellError(e, message)
    \/ \E e \in Execs, err \in {Undefined} \cup { Some(m) : m \in EndErrorMessages } :
          ProcessEnd(e, err)
    \/ Tick
    \/ \E maxAge \in Times : Sweep(maxAge)
    \/ \E filename \in Filenames : ViewChart(filename)
    \/ \E filename \in Filenames : DownloadChart(filename)
    \/ \E filename \in Filenames : ChartMetadata(filename)
    \/ ListCharts
    \/ \E filename \in Filenames : DeleteChart(filename)

Spec == Init /\ [][Next]_vars

\* One call of executePythonCode against the events of its python shell, the
\* clock, the retention sweep and the results routes.
NextOneCall ==
    \/ \E format \in RequestFormats, write \in {"ok", "throws", "partial"},
          spawn \in {"ok", "throws"} : executePythonCode(1, format, write, spawn)
    \/ ScriptSave(1)
    \/ \E message \in StdoutMessages : ShellMessage(1, message)
    \/ \E message \in ShellErrorMessages : ShellError(1, message)
    \/ \E err \in {Undefined} \cup { Some(m) : m \in EndErrorMessages } :
          ProcessEnd(1, err)
    \/ Tick
    \/ \E maxAge \in Times : Sweep(maxAge)
    \/ \E filename \in Filenames : ViewChart(filename)
    \/ \E filename \in Filenames : DownloadChart(filename)
    \/ \E filename \in Filenames : ChartMetadata(filename)
    \/ ListCharts
    \/ \E filename \in Filenames : DeleteChart(filename)

SpecCall == Init /\ [][NextOneCall]_vars

\* Concurrent calls of executePythonCode and their python processes alone.
NextCalls ==
    \/ \E e \in Execs, format \in RequestFormats, write \in {"ok", "throws", "partial"},
          spawn \in {"ok", "throws"} : executePythonCode(e, format, write, spawn)
    \/ \E e \in Execs : ScriptSave(e)
    \/ \E e \in Execs, err \in {Undefined} \cup { Some(m) : m \in EndErrorMessages } :
          ProcessEnd(e, err)
    \/ Tick

SpecCalls == Init /\ [][NextCalls]_vars

\* parseAIResponse applied to every raw reply of at most MaxLen tokens.
InitParse ==
    /\ now = 0
    /\ fs = [p \in Paths |-> NoFile]
    /\ exec = [e \in Execs |-> IdleExec]
    /\ result = [e \in Execs |-> NoResult]
    /\ touched = [e \in Execs |-> {}]
    /\ last = NoOp
    /\ response \in Replies
    /\ parsed = NotParsed
    /\ visualize = NoRequest
    /\ enhanced = NotEnhanced
    /\ py = NotStarted
    /\ uploads = EmptyUploadDir
    /\ issued = {}
    /\ pending = NoUpload
    /\ client = FreshPage
    /\ infer = NotInferred
    /\ request = NoRoute
    /\ drawn = 0

SpecParse == InitParse /\ [][Parse]_vars

\* cleanupOldFiles applied to every content of the two directories: regular
\* files of any age and at most one entry that is a directory or a dangling
\* link.
SweepPaths == { pythonFile(i) : i \in Ids } \cup { outputFile(i, "png") : i \in Ids }
Entries == {NoFile} \cup { [kind |-> k, mtime |-> t] : k \in {"file", "dir"}, t \in Times }
               \cup { [kind |-> "link", mtime |-> 0] }

InitSweep ==
    /\ now \in Times
    /\ \E g \in [SweepPaths -> Entries] :
          /\ Cardinality({ p \in SweepPaths : g[p].kind \in {"dir", "link"} }) <= 1
          /\ \A p \in SweepPaths : g[p].mtime <= now
          /\ fs = [p \in Paths |-> IF p \in SweepPaths THEN g[p] ELSE NoFile]
    /\ exec = [e \in Execs |-> IdleExec]
    /\ result = [e \in Execs |-> NoResult]
    /\ touched = [e \in Execs |-> {}]
    /\ last = NoOp
    /\ response = NoReply
    /\ parsed = NotParsed
    /\ visualize = NoRequest
    /\ enhanced = NotEnhanced
    /\ py = NotStarted
    /\ uploads = EmptyUploadDir
    /\ issued = {}
    /\ pending = NoUpload
    /\ client = FreshPage
    /\ infer = NotInferred
    /\ request = NoRoute
    /\ drawn = 0

NextSweep == \E maxAge \in Times : last.route = "none" /\ Sweep(maxAge)

SpecSweep == InitSweep /\ [][NextSweep]_vars

\* One POST /visualize request from its arrival to its answer.
NextVisualize ==
    \/ \E query \in {"", "q"}, datasetId \in {"", "d"}, aiModel \in Models \cup {""},
          outputFormat \in RequestFormats \cup {""} :
          VisualizeRequest(query, datasetId, aiModel, outputFormat)
    \/ \E found \in BOOLEAN : DatasetInfo(found)
    \/ \E message \in ProviderErrorMessages : ProviderFails(message)
    \/ \E reply \in ProviderReplies, write \in {"ok", "throws", "partial"},
          spawn \in {"ok", "throws"} : ProviderReply(reply, write, spawn)
    \/ ScriptSave(1)
    \/ \E message \in StdoutMessages : ShellMessage(1, message)
    \/ \E message \in ShellErrorMessages : ShellError(1, message)
    \/ \E err \in {Undefined} \cup { Some(m) : m \in EndErrorMessages } : SandboxEnd(err)

SpecVisualize == Init /\ [][NextVisualize]_vars

\* The three handlers that look a dataset up, one request of /visualize and
\* one of /preview or /execute, with the processes they launch.
NextRoutes ==
    \/ \E query \in {"", "q"}, datasetId \in {"", "d"}, aiModel \in Models \cup {""},
          outputFormat \in RequestFormats \cup {""} :
          VisualizeRequest(query, datasetId, aiModel, outputFormat)
    \/ \E found \in BOOLEAN : DatasetInfo(found)
    \/ \E message \in ProviderErrorMessages : ProviderFails(message)
    \/ \E reply \in ProviderReplies, write \in {"ok", "throws", "partial"},
          spawn \in {"ok", "throws"} : ProviderReply(reply, write, spawn)
    \/ \E err \in {Undefined} \cup { Some(m) : m \in EndErrorMessages } : SandboxEnd(err)
    \/ \E query \in {"", "q"}, datasetId \in {"", "d"}, aiModel \in Models \cup {""} :
          PreviewRequest(query, datasetId, aiModel)
    \/ \E pythonCode \in {"", "c"}, datasetId \in {"", "d"},
          outputFormat \in RequestFormats \cup {""} :
          ExecuteRequest(pythonCode, datasetId, outputFormat)
    \/ \E found \in BOOLEAN : PreviewDataset(found)
    \/ \E message \in ProviderErrorMessages : PreviewProviderFails(message)
    \/ \E reply \in ProviderReplies : PreviewProviderReply(reply)
    \/ \E found \in BOOLEAN, write \in {"ok", "throws", "partial"},
          spawn \in {"ok", "throws"} : ExecuteDataset(found, write, spawn)
    \/ \E err \in {Undefined} \cup { Some(m) : m \in EndErrorMessages } : ExecuteEnd(err)
    \/ \E e \in Execs : ScriptSave(e)

SpecRoutes == Init /\ [][NextRoutes]_vars


\* enhancePythonCode applied to every code of at most MaxCode tokens.
InitEnhance ==
    /\ now = 0
    /\ fs = [p \in Paths |-> NoFile]
    /\ exec = [e \in Execs |-> IdleExec]
    /\ result = [e \in Execs |-> NoResult]
    /\ touched = [e \in Execs |-> {}]
    /\ last = NoOp
    /\ response = NoReply
    /\ parsed = NotParsed
    /\ visualize = NoRequest
    /\ enhanced \in { [NotEnhanced EXCEPT !.originalCode = c, !.datasetPath = d,
                                          !.outputPath = o, !.format = f] :
                        c \in Codes, d \in DatasetPaths, o \in OutputPaths,
                        f \in Formats }
    /\ py = NotStarted
    /\ uploads = EmptyUploadDir
    /\ issued = {}
    /\ pending = NoUpload
    /\ client = FreshPage
    /\ infer = NotInferred
    /\ request = NoRoute
    /\ drawn = 0

SpecEnhance == InitEnhance /\ [][Enhance]_vars

\* One call of executePythonCode with its python process followed through the
\* enveloped script.
NextScript ==
    \/ \E format \in Formats, write \in {"ok", "throws", "partial"},
          spawn \in {"ok", "throws"} : executePythonCode(1, format, write, spawn)
    \/ \E loaded \in BOOLEAN : ScriptSetup(loaded)
    \/ \E pyFormat \in PyFormats, pyFig \in PyFigs, raises \in BOOLEAN :
          ScriptCode(pyFormat, pyFig, raises)
    \/ \E save \in {"saved", "raises", "raisesPartial"} : ScriptEpilogue(save)
    \/ ScriptExit
    \/ Tick

SpecScript == Init /\ [][NextScript]_vars

\* The same, with caller-supplied code that may never end, and with the
\* progress the runtime guarantees: a python process that can take its next
\* step takes it, and the event loop runs the end callback of a process that
\* has exited.
NextRunner ==
    \/ NextScript
    \/ ScriptLoops

SpecRunner ==
    /\ Init /\ [][NextRunner]_vars
    /\ WF_vars(\E loaded \in BOOLEAN : ScriptSetup(loaded))
    /\ WF_vars(ScriptLoops \/ \E pyFormat \in PyFormats, pyFig \in PyFigs, raises \in BOOLEAN :
                                ScriptCode(pyFormat, pyFig, raises))
    /\ WF_vars(\E save \in {"saved", "raises", "raisesPartial"} : ScriptEpilogue(save))
    /\ WF_vars(ScriptExit)

\* GET /charts applied to every content of the output directory that scripts
\* and other writers of regular files can leave: files of any age, with and
\* without a chart extension.
ListPaths == { outputFile(i, "png") : i \in Ids } \cup ForeignPaths
RegularFiles == {NoFile} \cup { [kind |-> "file", mtime |-> t] : t \in Times }

InitList ==
    /\ now \in Times
    /\ \E g \in [ListPaths -> RegularFiles] :
          /\ \A p \in ListPaths : g[p].mtime <= now
          /\ fs = [p \in Paths |-> IF p \in ListPaths THEN g[p] ELSE NoFile]
    /\ exec = [e \in Execs |-> IdleExec]
    /\ result = [e \in Execs |-> NoResult]
    /\ touched = [e \in Execs |-> {}]
    /\ last = NoOp
    /\ response = NoReply
    /\ parsed = NotParsed
    /\ visualize = NoRequest
    /\ enhanced = NotEnhanced
    /\ py = NotStarted
    /\ uploads = EmptyUploadDir
    /\ issued = {}
    /\ pending = NoUpload
    /\ client = FreshPage
    /\ infer = NotInferred
    /\ request = NoRoute
    /\ drawn = 0

NextList == last.route = "none" /\ ListCharts

SpecList == InitList /\ [][NextList]_vars

\* One call of executePythonCode and the results routes, called with any
\* filename parameter.
NextParams ==
    \/ \E format \in RequestFormats, write \in {"ok", "throws", "partial"},
          spawn \in {"ok", "throws"} : executePythonCode(1, format, write, spawn)
    \/ ScriptSave(1)
    \/ \E err \in {Undefined} \cup { Some(m) : m \in EndErrorMessages } :
          ProcessEnd(1, err)
    \/ Tick
    \/ \E filename \in FilenameParams : ViewChart(joinOutput(filename))
    \/ \E filename \in FilenameParams : DownloadChart(joinOutput(filename))
    \/ \E filename \in FilenameParams : ChartMetadata(joinOutput(filename))
    \/ \E filename \in FilenameParams : DeleteChart(joinOutput(filename))

SpecParams == Init /\ [][NextParams]_vars

\* The upload directory alone: the page uploading files, and callers of the
\* dataset routes.
NextUpload ==
    \/ \E ext \in Extensions, content \in FileContents : uploadFile(ext, content)
    \/ MulterStore
    \/ UploadHandler
    \/ uploadFileFromAwait
    \/ \E datasetId \in DatasetIds : GetDataset(datasetId)
    \/ \E datasetId \in DatasetIds : DeleteDataset(datasetId)
    \/ Tick

SpecUpload == Init /\ [][NextUpload]_vars

\* inferDataTypes alone, applied to any column.
InitInfer ==
    /\ now = 0
    /\ fs = [p \in Paths |-> NoFile]
    /\ exec = [e \in Execs |-> IdleExec]
    /\ result = [e \in Execs |-> NoResult]
    /\ touched = [e \in Execs |-> {}]
    /\ last = NoOp
    /\ response = NoReply
    /\ parsed = NotParsed
    /\ visualize = NoRequest
    /\ enhanced = NotEnhanced
    /\ py = NotStarted
    /\ uploads = EmptyUploadDir
    /\ issued = {}
    /\ pending = NoUpload
    /\ client = FreshPage
    /\ infer \in { [NotInferred EXCEPT !.column = c] : c \in Columns }
    /\ request = NoRoute
    /\ drawn = 0

SpecInfer == InitInfer /\ [][Infer]_vars

\* ================================================================ claims

\* The calls of executePythonCode that have returned.
Returned(e) == result[e].returned
\* The python shell of call e reported no error: no 'error' event and no err
\* in the end callback.
CleanEnd(e) == exec[e].launched /\ exec[e].nerr = 0 /\ ~exec[e].endErr

\* C1: a call of executePythonCode returns success = true if and only if its
\* python process was launched and ended with no error reported by the shell
\* and its own output file exists when the end of the process is handled; a
\* clean end alone or the file alone does not give success.
C1_SuccessIffCleanEndAndFile ==
    [][\A e \in Execs :
         (~result[e].returned /\ result'[e].returned) =>
            (result'[e].success <=>
               /\ exec[e].phase = "Running"
               /\ exec[e].nerr = 0
               /\ ~exec'[e].endErr
               /\ Exists(fs, outputFile(exec[e].id, exec[e].format)))]_vars

C1_Witness ==
    \E e \in Execs : Returned(e) /\ result[e].success /\ exec[e].nmsg > 0

\* C2: once executePythonCode has returned, by whichever branch, the temp
\* script of that call does not exist.
C2_TempScriptRemoved ==
    \A e \in Execs : Returned(e) => fs[pythonFile(exec[e].id)].kind = "none"

C2_Witness ==
    \E e \in Execs : Returned(e) /\ ~exec[e].launched

\* C3: two calls of executePythonCode never share an id, a script path or an
\* output path, also when they start in the same millisecond with the same
\* format, and every path a call writes, checks or deletes carries its own id.
C3_PathsNeverCollide ==
    /\ \A e \in Execs : \A p \in touched[e] : p.id = exec[e].id
    /\ \A e1, e2 \in Execs :
          (e1 # e2 /\ exec[e1].phase # "Idle" /\ exec[e2].phase # "Idle") =>
             /\ exec[e1].id # exec[e2].id
             /\ pythonFile(exec[e1].id) # pythonFile(exec[e2].id)
             /\ outputFile(exec[e1].id, exec[e1].format)
                   # outputFile(exec[e2].id, exec[e2].format)
             /\ touched[e1] \cap touched[e2] = {}

C3_Witness ==
    \E e1, e2 \in Execs :
       /\ e1 # e2
       /\ exec[e1].phase = "Running" /\ exec[e2].phase = "Running"
       /\ exec[e1].started = exec[e2].started
       /\ exec[e1].format = exec[e2].format
       /\ Cardinality(touched[e1]) = 2 /\ Cardinality(touched[e2]) = 2

\* The output file p is the artifact of a call that has returned success.
ConfirmedArtifact(p) ==
    \E e \in Execs : Returned(e) /\ result[e].success /\ result[e].chartPath = p

\* C4: the list operation never shows the output file of an execution that is
\* unfinished or has failed.
C4_OnlyConfirmedArtifactsListed ==
    (last.route = "list" /\ last.status = 200) =>
        \A i \in 1 .. Len(last.charts) : ConfirmedArtifact(last.charts[i])

\* C5: after executePythonCode has returned success = false, no output file
\* of that execution remains in the output directory.
C5_FailedExecutionLeavesNoArtifact ==
    \A e \in Execs :
       (Returned(e) /\ ~result[e].success) =>
           fs[outputFile(exec[e].id, exec[e].format)].kind = "none"

\* C6: no python process is still running once it has run longer than the
\* wall-clock budget (it is terminated and reported as Timeout).
C6_TerminatedAfterBudget ==
    \A e \in Execs :
       exec[e].phase = "Running" => now - exec[e].started <= TimeoutBudget

\* C7: a script that ends cleanly without creating the output file gives
\* success = false, and every result with success = false carries a non-empty
\* error string and no chartPath.
C7_FailureCarriesError ==
    \A e \in Execs :
       /\ (Returned(e) /\ CleanEnd(e) /\ ~exec[e].chartExists) => ~result[e].success
       /\ (Returned(e) /\ ~result[e].success) =>
             /\ result[e].error.some
             /\ result[e].error.val # <<>>
             /\ result[e].chartPath = NoPath

C7_Witness ==
    \E e \in Execs :
       /\ Returned(e) /\ CleanEnd(e) /\ ~exec[e].chartExists
       /\ result[e].error = Some(ChartGenerationFailed)

\* Each of the four tags occurs exactly once in the text.
AllTagsOnce(text) ==
    \A tag \in Tags : Cardinality({ i \in 1 .. Len(text) : text[i] = tag }) = 1
\* The text between the tag and the nearest following tag or the end.
TextBetween(text, tag) ==
    LET at == CHOOSE i \in 1 .. Len(text) : text[i] = tag
        following == CHOOSE k \in at + 1 .. Len(text) + 1 :
                        /\ k = Len(text) + 1 \/ text[k] \in Tags
                        /\ \A m \in at + 1 .. k - 1 : text[m] \notin Tags
    IN  SubSeq(text, at + 1, following - 1)

\* C8 as stated: with each tag exactly once, in any order, every field is the
\* trimmed text between its tag and the nearest following tag or the end.
C8_FieldIsTextBetweenTags ==
    (parsed.done /\ AllTagsOnce(response)) =>
        \A tag \in Tags : Field(parsed, tag) = Trim(TextBetween(response, tag))

\* C8 amended: with each tag exactly once, in any order, every field is the
\* trimmed text between its tag and the nearest following tag or the end, or
\* the field's placeholder when that text is blank.
C8_FieldIsTextBetweenTagsOrPlaceholder ==
    (parsed.done /\ AllTagsOnce(response)) =>
        \A tag \in Tags :
           Field(parsed, tag) =
              IF Trim(TextBetween(response, tag)) = <<>>
              THEN Placeholder(tag)
              ELSE Trim(TextBetween(response, tag))

C8_Witness ==
    /\ parsed.done /\ AllTagsOnce(response)
    /\ response[1] = "EXPLANATION:" /\ response[Len(response)] = "ANALYSIS:"
    /\ parsed.explanation = <<"x">>
    /\ parsed.pythonCode = <<"x">>

\* The tag does not occur in the text.
TagAbsent(text, tag) == \A i \in 1 .. Len(text) : text[i] # tag
\* The section of the leftmost occurrence of the tag, up to the nearest of the
\* three other tags or the end, holds blanks only.
BlankSection(text, tag) ==
    \E i \in 1 .. Len(text) :
       /\ text[i] = tag /\ \A j \in 1 .. i - 1 : text[j] # tag
       /\ \E k \in i + 1 .. Len(text) + 1 :
             /\ k = Len(text) + 1 \/ text[k] \in Tags \ {tag}
             /\ \A m \in i + 1 .. k - 1 : text[m] \in WhiteSpace

\* C9: for every raw reply parseAIResponse returns its four fields, and a
\* field whose tag is absent or whose section is blank is its placeholder.
C9_MissingSectionsArePlaceholders ==
    parsed.done =>
        \A tag \in Tags :
           (TagAbsent(response, tag) \/ BlankSection(response, tag)) =>
               Field(parsed, tag) = Placeholder(tag)

C9_Witness ==
    /\ parsed.done
    /\ TagAbsent(response, "ANALYSIS:") /\ parsed.analysis = Placeholder("ANALYSIS:")
    /\ ~TagAbsent(response, "CODE:") /\ BlankSection(response, "CODE:")
    /\ parsed.pythonCode = Placeholder("CODE:")
    /\ parsed.explanation = <<"x">>

\* C10: after cleanupOldFiles(maxAge) every regular file older than maxAge is
\* gone and every file younger than maxAge is still there, also when another
\* entry could not be inspected or deleted during the sweep.
C10_SweepRemovesOldKeepsYoung ==
    last.route = "sweep" =>
        \A p \in DOMAIN last.before :
           last.before[p].kind = "file" =>
              /\ last.at - last.before[p].mtime > last.maxAge => fs[p].kind = "none"
              /\ last.at - last.before[p].mtime < last.maxAge => fs[p] = last.before[p]

\* C11: a retention sweep never removes the temp script of a call whose python
\* process has not ended yet, whatever its maxAge.
C11_SweepSparesScriptInUse ==
    last.route = "sweep" =>
        \A e \in Execs :
           exec[e].phase = "Running" =>
              fs[pythonFile(exec[e].id)] = last.before[pythonFile(exec[e].id)]

\* C12: get answers 404 exactly when the file is absent; delete answers 200
\* exactly when the file is present, and the file is absent afterwards; a
\* missing file stays missing, so that every later get and delete answers
\* 404, until a script creates it again.
C12_GetAndDeleteTellAbsence ==
    [][/\ last'.route = "view" =>
             (last'.status = 404 <=> ~Exists(fs, last'.filename))
       /\ last'.route = "delete" =>
             /\ last'.status = 200 <=> Exists(fs, last'.filename)
             /\ last'.status = 404 <=> ~Exists(fs, last'.filename)
             /\ ~Exists(fs', last'.filename)
       /\ \A p \in Filenames :
             (~Exists(fs, p) /\ Exists(fs', p)) => last'.route = "none"]_vars

\* A delete answers 404 for a chart that existed when its call returned and
\* that no sweep can have removed (nothing is older than the clock's start).
C12_Witness ==
    /\ last.route = "delete" /\ last.status = 404 /\ now = 0
    /\ \E e \in Execs : /\ Returned(e) /\ result[e].success
                        /\ result[e].chartPath = last.filename

\* analyzeData has been entered for the request.
AnalyzeDataCalled ==
    visualize.phase \in {"Model", "Sandbox"} \/ visualize.modelFailed \/ parsed.done

\* C13: a run of POST /visualize never answers twice and never lets an error
\* leave the handler; when it has ended it has answered exactly once; after a
\* failure of the model stage the answer is the 500 one and no sandbox call
\* was made; after the sandbox has returned the answer is the chart (200) if
\* the execution succeeded and otherwise the execution failure (400) with the
\* error and the transcript.
C13_OneTaggedAnswerPerRun ==
    /\ ~visualize.escaped
    /\ Len(visualize.responses) <= 1
    /\ visualize.phase = "Done" => Len(visualize.responses) = 1
    /\ visualize.modelFailed =>
          /\ \A e \in Execs : exec[e].phase = "Idle"
          /\ visualize.phase = "Done"
          /\ visualize.responses[1].status = 500
          /\ Truthy(visualize.responses[1].error)
          /\ Truthy(visualize.responses[1].details)
    /\ (visualize.phase = "Done" /\ Returned(1)) =>
          IF result[1].success
          THEN /\ visualize.responses[1].status = 200
               /\ visualize.responses[1].success = "true"
               /\ visualize.responses[1].chartPath = result[1].chartPath
          ELSE /\ visualize.responses[1].status = 400
               /\ visualize.responses[1].success = "false"
               /\ Truthy(visualize.responses[1].error)
               /\ visualize.responses[1].output = Some(result[1].output)

\* The provider call of a run failed and the run has answered.
C13_Witness ==
    /\ visualize.phase = "Done" /\ visualize.modelFailed
    /\ visualize.aiModel = "openai" /\ visualize.calls["openai"] = 1
    /\ visualize.responses[1].details = Some(AnalysisFailed(<<"P">>))

\* C14: when the model stage succeeded and the sandbox execution failed, the
\* answer carries the analysis text, the chart-kind label and the explanation
\* the model stage produced, together with the execution's error.
C14_PartialResultKept ==
    (visualize.phase = "Done" /\ parsed.done /\ Returned(1) /\ ~result[1].success) =>
        /\ Len(visualize.responses) = 1
        /\ visualize.responses[1].analysis.given
        /\ visualize.responses[1].analysis.analysis = parsed.analysis
        /\ visualize.responses[1].analysis.visualizationType = parsed.visualizationType
        /\ visualize.responses[1].analysis.explanation = parsed.explanation
        /\ visualize.responses[1].error = result[1].error
        /\ Truthy(visualize.responses[1].error)

\* The model's four sections were given, the script ended with an error.
C14_Witness ==
    /\ visualize.phase = "Done" /\ Returned(1) /\ ~result[1].success
    /\ exec[1].launched /\ exec[1].endErr
    /\ visualize.responses[1].analysis.analysis = <<"a">>
    /\ visualize.responses[1].analysis.visualizationType = <<"v">>
    /\ visualize.responses[1].analysis.explanation = <<"e">>

\* C15: once analyzeData has been entered, the provider named by the request's
\* model has been called exactly once and no other provider at all, also after
\* that call has failed; for a model without a provider no provider has been
\* called and the request has failed with the unsupported-model error.
C15_OneProviderOneCall ==
    /\ ~AnalyzeDataCalled => visualize.calls = NoCalls
    /\ (AnalyzeDataCalled /\ visualize.aiModel \in Providers) =>
          \A p \in Providers :
             visualize.calls[p] = IF p = visualize.aiModel THEN 1 ELSE 0
    /\ (AnalyzeDataCalled /\ visualize.aiModel \notin Providers) =>
          /\ visualize.calls = NoCalls
          /\ visualize.modelFailed
          /\ visualize.responses[1].details =
                Some(AnalysisFailed(UnsupportedModel(visualize.aiModel)))

\* The request named deepseek and has failed without a provider call.
C15_Witness ==
    /\ visualize.aiModel = "deepseek" /\ visualize.modelFailed
    /\ visualize.calls = NoCalls /\ visualize.phase = "Done"

\* The script with the two segments of the envelope stripped from its ends.
StripEnvelope(script, datasetPath, outputPath, format) ==
    SubSeq(script, Len(setupCode(datasetPath)) + 1,
           Len(script) - Len(cleanupCode(outputPath, format)))

\* C16: the script enhancePythonCode returns starts with the prologue, ends
\* with the epilogue and holds the caller's code, unchanged and in one piece,
\* between them, so that stripping the two segments gives the code back; the
\* directories and the calls of executePythonCode are as they were.
C16_CodeEnvelopedUnchanged ==
    enhanced.done =>
        LET pro == setupCode(enhanced.datasetPath)
            epi == cleanupCode(enhanced.outputPath, enhanced.format)
            script == enhanced.script
        IN  /\ Len(script) = Len(pro) + Len(enhanced.originalCode) + Len(epi)
            /\ SubSeq(script, 1, Len(pro)) = pro
            /\ SubSeq(script, Len(pro) + 1, Len(pro) + Len(enhanced.originalCode))
                  = enhanced.originalCode
            /\ SubSeq(script, Len(script) - Len(epi) + 1, Len(script)) = epi
            /\ StripEnvelope(script, enhanced.datasetPath, enhanced.outputPath,
                             enhanced.format) = enhanced.originalCode
            /\ fs = [p \in Paths |-> NoFile]
            /\ exec = [e \in Execs |-> IdleExec]

\* A code that starts with a newline and ends with the epilogue's first words.
C16_Witness ==
    /\ enhanced.done
    /\ Len(enhanced.originalCode) = 3
    /\ enhanced.originalCode[1] = "\n" /\ enhanced.originalCode[3] = "try:"
    /\ enhanced.format = "html"

\* C17: for a caller's code that does not bind the name format, the epilogue
\* saves through write_html exactly when the request's outputFormat is html,
\* and through savefig otherwise.
C17_BranchFollowsOutputFormat ==
    (py.branch # "none" /\ py.format = "builtin") =>
        (py.branch \in {"fig.write_html", "mpl_to_plotly"} <=> exec[1].format = "html")

\* C18: when the save in the epilogue has raised, the process ends with a
\* non-zero exit status, and the call of executePythonCode, once it has
\* returned, reports success = false.
C18_SaveFailureIsExecutionFailure ==
    py.saveRaised =>
        /\ py.pc \in {"exited", "ended"}
        /\ py.exitCode # 0
        /\ Returned(1) => ~result[1].success

\* The save raised and left a partial output file behind; the call returned.
C18_Witness ==
    /\ py.saveRaised /\ py.pc = "ended" /\ Returned(1)
    /\ exec[1].chartExists
    /\ exec[1].format = "png"

\* C19: for every content of the output directory the list operation answers
\* with exactly the files whose extension is png, jpg, jpeg, svg or html,
\* each once, no file before one that was modified later.
C19_ListIsFilteredAndSorted ==
    last.route = "list" =>
        /\ last.status = 200
        /\ { last.charts[i] : i \in 1 .. Len(last.charts) } =
              { p \in DirEntries(fs, "output") : p.ext \in ListedExtensions }
        /\ \A i, j \in 1 .. Len(last.charts) :
              i # j => last.charts[i] # last.charts[j]
        /\ \A i \in 1 .. Len(last.charts) - 1 :
              fs[last.charts[i]].mtime >= fs[last.charts[i + 1]].mtime

\* Three charts listed, the newest first and the oldest last, a .jpeg among
\* them, and a file that is not a chart left out.
C19_Witness ==
    /\ last.route = "list" /\ last.status = 200 /\ Len(last.charts) = 3
    /\ fs[last.charts[1]].mtime > fs[last.charts[3]].mtime
    /\ \E i \in 1 .. 3 : last.charts[i].ext = "jpeg"
    /\ \E p \in DOMAIN fs : p.ext = "txt" /\ fs[p].kind = "file"

\* C20: for an existing artifact both the view and the metadata operation
\* answer 200 and report the content type the table gives for the file's
\* extension.
C20_ContentTypeFromExtension ==
    (last.route \in {"view", "metadata"} /\ Exists(fs, last.filename)) =>
        /\ last.status = 200
        /\ last.contentType = getContentType(last.filename.ext)

\* C21: the id an upload has returned resolves, through getDatasetInfo, to the
\* uploaded dataset for as long as its file is stored: a lookup of such an id
\* answers 200 with the file that upload stored, never 'Dataset not found'.
C21_IssuedIdResolves ==
    last.route = "getDataset" =>
        \A d \in issued :
            (last.datasetId = <<d.id>> /\ last.before[d.filename] # "none")
                => (last.status = 200 /\ last.file = d.filename)

\* C22: an upload the backend answers with 201 and the dataset makes the
\* FileUpload component announce success and hand the dataset to Index, which
\* then shows the analysis view; it is never shown as 'Upload failed'.
C22_BackendSuccessShownAsSuccess ==
    client.answered = 201 =>
        (client.toast = "Upload successful!" /\ client.currentDataset # NoDataset)

\* C28: getDatasetInfo only reads: after a lookup, whatever the id and
\* whatever the upload directory held, the directory holds the same files as
\* before, also when the matched file could not be processed.
C28_LookupLeavesDirectoryUnchanged ==
    last.route = "getDataset" => readdirSync(uploads) = readdirSync(last.before)

\* C30: getDatasetInfo(id) and deleteDataset(id) act only on the file of the
\* dataset that was issued the id: a file they process or unlink belongs to a
\* dataset whose id is the one asked for, never to one whose file name merely
\* contains the string asked for.
C30_OnlyTheDatasetOfTheId ==
    (last.route \in {"getDataset", "deleteDataset"} /\ last.file # <<>>) =>
        \E d \in issued : last.datasetId = <<d.id>> /\ last.file = d.filename

\* The column up to and including its first non-empty value (the whole column
\* if it has none).
UpToFirstNonEmpty(column) ==
    IF \E i \in 1..Len(column) : nonEmpty(column[i])
    THEN SubSeq(column, 1, CHOOSE i \in 1..Len(column) :
                              /\ nonEmpty(column[i])
                              /\ \A j \in 1..(i - 1) : ~nonEmpty(column[j]))
    ELSE column

\* C23: the inferred type of a column is number, date or string, and is that
\* of its first non-empty value (number before date before string; string
\* when there is none): every column that agrees with it up to that value
\* gets the same type, whatever follows.
C23_TypeFromFirstNonEmptyValue ==
    infer.done =>
        /\ infer.dataType \in {"number", "date", "string"}
        /\ LET head == UpToFirstNonEmpty(infer.column)
           IN  /\ infer.dataType =
                     IF head = <<>> \/ ~nonEmpty(head[Len(head)]) THEN "string"
                     ELSE typeOfValue(head[Len(head)])
               /\ \A other \in Columns :
                     UpToFirstNonEmpty(other) = head /\ Len(head) > 0
                         /\ nonEmpty(head[Len(head)])
                         => inferDataType(other) = infer.dataType

\* C23 witness: a column whose first non-empty value is a number and whose
\* later values are not has been given the type number.
C23_Witness ==
    /\ infer.done
    /\ Len(infer.column) = 3
    /\ infer.column[1] = "" /\ infer.column[2] = "42" /\ infer.column[3] = "abc"
    /\ infer.dataType = "number"

C25_LaunchedEventuallyReturns ==
    (exec[1].phase = "Running") ~>
        (Returned(1) /\ ~Exists(fs, pythonFile(exec[1].id)))

\* C26: while a process runs, the output and error text the runner has
\* accumulated for it never exceed the size ceiling.
C26_TranscriptBounded ==
    \A e \in Execs :
        exec[e].phase = "Running" =>
            Len(exec[e].output) + Len(exec[e].error) <= TranscriptCeiling

\* The handler whose record goes from v to w has answered in this step.
AnsweredNow(v, w) == Len(w.responses) > Len(v.responses)
LastAnswer(w) == w.responses[Len(w.responses)]
MissingFieldsAnswers ==
    { Some(MissingRequiredFields), Some(MissingPreviewFields), Some(MissingExecuteFields) }
\* The handler answers 400 for a missing field in the step the request
\* arrives in, 404 in the step the lookup resolves in, and that step, like the
\* arrival before it, calls no provider, launches no process and creates no
\* file.
EarlyAnswer(v, w) ==
    /\ (AnsweredNow(v, w) /\ LastAnswer(w).status = 400
           /\ LastAnswer(w).error \in MissingFieldsAnswers) =>
          (v.phase = "Idle" /\ w.calls = NoCalls /\ exec' = exec /\ fs' = fs)
    /\ (AnsweredNow(v, w) /\ LastAnswer(w).status = 404) =>
          (v.phase = "Dataset" /\ w.calls = NoCalls /\ exec' = exec /\ fs' = fs)
    /\ (v.phase = "Idle" /\ w.phase = "Dataset") =>
          (w.calls = NoCalls /\ exec' = exec /\ fs' = fs)

\* C27: /visualize, /preview and /execute answer 400 for a missing required
\* field before the dataset is looked up and 404 for a dataset that is not
\* found, and in both cases no provider has been called, no python process
\* launched and no temp or output file created.
C27_ChecksBeforeCostlySteps ==
    [][EarlyAnswer(visualize, visualize') /\ EarlyAnswer(request, request')]_vars

\* C27 witness: /visualize has answered 404 for a dataset that was not found
\* and /execute has answered 400 for a missing field.
C27_Witness ==
    /\ visualize.phase = "Done" /\ LastAnswer(visualize).status = 404
    /\ request.phase = "Done" /\ request.route = "execute"
    /\ LastAnswer(request).status = 400
    /\ LastAnswer(request).error = Some(MissingExecuteFields)

\* C29: whatever filename parameter a caller sends, a file the get, download,
\* metadata and delete routes have returned or unlinked lies in output/.
C29_RoutesStayInsideOutput ==
    (last.route \in {"view", "download", "metadata", "delete"} /\ last.status = 200)
        => last.filename.dir = "output"

====
